---- MODULE Spec2Model ----
(***************************************************************************)
(* Model of the shoe / running-count / undo-history state machine of the   *)
(* BlackjackTrainer component (src/Pages/BlackjackTrainer.jsx).            *)
(*                                                                         *)
(* The component state is the React state of the component: rules,         *)
(* cardsRemaining, runningCount and history.  Every handler reads the      *)
(* state captured by the render it was created in and issues setState      *)
(* calls that are applied together when the handler returns; a handler is  *)
(* therefore one atomic action computed from the pre-state.                *)
(***************************************************************************)
EXTENDS Integers, Sequences, FiniteSets, TLC

(***************************************************************************)
(* Bounds of the model.                                                    *)
(***************************************************************************)
MaxDecks == 1        \* deck counts 1..MaxDecks are selectable besides the standard one
MaxHist  == 3        \* Spec: a deal is accepted when it leaves at most this many history entries
MaxDeep  == 5        \* SpecDeep: the same, for the runs that deplete a rank
MaxCorr  == 2        \* successful corrections accepted since the last reset
MaxRun   == 52       \* SpecRun: the same as MaxHist, for the runs of quick counts
MaxMixCorr == 1      \* SpecMix: the same as MaxCorr, for the mixed runs

(***************************************************************************)
(* Ranks and capacities.                                                   *)
(***************************************************************************)
Ranks == {"2", "3", "4", "5", "6", "7", "8", "9", "10", "A"}

\* JavaScript NaN (undefined - 1); never equal to a card count
NaN == -999999

\* cardsRemaining[card] of a JavaScript object: undefined when the key is absent
HasKey(m, k) == k \in DOMAIN m

\* { ...m, [k]: v }
Put(m, k, v) == [x \in (DOMAIN m) \cup {k} |-> IF x = k THEN v ELSE m[x]]

\* card === '10' ? rules.numDecks * 16 : rules.numDecks * 4
maxCards(rls, card) == IF card = "10" THEN rls.numDecks * 16 ELSE rls.numDecks * 4

(***************************************************************************)
(* Counting systems (components/blackjack/CountingSystems, not part of the *)
(* sources at hand): rank -> integer tag weight.  The balanced level-1     *)
(* system is required; a second system stands for any other registry       *)
(* entry.                                                                  *)
(***************************************************************************)
HiLoTags == [r \in Ranks |-> IF r \in {"2", "3", "4", "5", "6"} THEN 1
                             ELSE IF r \in {"7", "8", "9"} THEN 0 ELSE -1]

KOTags == [r \in Ranks |-> IF r \in {"2", "3", "4", "5", "6", "7"} THEN 1
                           ELSE IF r \in {"8", "9"} THEN 0 ELSE -1]

SystemIds == {"hi-lo", "ko"}

getCountingSystem(id) == IF id = "hi-lo" THEN [tags |-> HiLoTags] ELSE [tags |-> KOTags]

\* countingSystem.tags[card] || 0
tagWeight(rls, card) ==
    LET tags == getCountingSystem(rls.countingSystem).tags
    IN  IF HasKey(tags, card) THEN tags[card] ELSE 0

(***************************************************************************)
(* Rules configuration.                                                    *)
(***************************************************************************)
StandardDecks == 6

DeckChoices == (1..MaxDecks) \cup {StandardDecks}

RulesChoices == [numDecks : DeckChoices, countingSystem : SystemIds]

DEFAULT_COMPREHENSIVE_RULES == [numDecks |-> StandardDecks, countingSystem |-> "hi-lo"]

(***************************************************************************)
(* State.                                                                  *)
(***************************************************************************)
VARIABLES
    rules,           \* useState(DEFAULT_COMPREHENSIVE_RULES)
    cardsRemaining,  \* rank -> remaining count
    runningCount,    \* integer
    history,         \* sequence of history entries, newest last
    lastOp,          \* the handler that ran last, its argument and whether it passed its guard
    netDealt,        \* bookkeeping: deals - corrections - undos since the last reset
    corrSince,       \* bookkeeping: corrections made while history entry i was the newest
    revertedCorr,    \* bookkeeping: corrections that an undo has reverted since the last reset
    handType,        \* useState('hard')
    handValue,       \* useState('16')
    dealerCard,      \* useState('10')
    recommendation   \* useState(null)

vars == <<rules, cardsRemaining, runningCount, history, lastOp, netDealt, corrSince, revertedCorr,
          handType, handValue, dealerCard, recommendation>>

handVars == <<handType, handValue, dealerCard>>

\* the value null of the recommendation
Null == [kind |-> "null"]

\* the part of the state the shoe operations read and write
Shoe == [cardsRemaining |-> cardsRemaining, runningCount |-> runningCount, history |-> history]

RECURSIVE SumSeq(_)
SumSeq(s) == IF s = <<>> THEN 0 ELSE s[1] + SumSeq(Tail(s))

\* Object.values(cardsRemaining).reduce((sum, count) => sum + count, 0)
RECURSIVE SumOver(_, _)
SumOver(m, keys) ==
    IF keys = {} THEN 0
    ELSE LET k == CHOOSE x \in keys : TRUE
         IN  m[k] + SumOver(m, keys \ {k})

getTotalCardsRemaining(cards) ==
    IF \E k \in DOMAIN cards : cards[k] = NaN THEN NaN ELSE SumOver(cards, DOMAIN cards)

(***************************************************************************)
(* The handlers, as functions from the state the handler's closure holds   *)
(* to the state its setState calls install.                                *)
(***************************************************************************)

\* resetShoe that fills the tens like every other rank
resetShoe_tensAsOthers(rls) ==
    [cardsRemaining |-> [r \in Ranks |-> rls.numDecks * 4],
     runningCount   |-> 0,
     history        |-> <<>>]

\* resetShoe: every rank at capacity, running count 0, empty history
resetShoe(rls) ==
    [cardsRemaining |-> [r \in Ranks |-> IF r = "10" THEN rls.numDecks * 16
                                         ELSE rls.numDecks * 4],
     runningCount   |-> 0,
     history        |-> <<>>]

\* applyCard without the depleted-rank guard
applyCard_noGuard(st, rls, card) ==
    LET weight == tagWeight(rls, card)
    IN  [cardsRemaining |-> [st.cardsRemaining EXCEPT ![card] = @ - 1],
         runningCount   |-> st.runningCount + weight,
         history        |-> Append(st.history,
                                   [card |-> card, weight |-> weight,
                                    rc |-> st.runningCount,
                                    remaining |-> st.cardsRemaining])]

\* applyCard that stores the shoe after the deal in the history entry
applyCard_snapAfter(st, rls, card) ==
    IF st.cardsRemaining[card] <= 0 THEN st
    ELSE LET weight == tagWeight(rls, card)
             newRemaining == [st.cardsRemaining EXCEPT ![card] = @ - 1]
         IN  [cardsRemaining |-> newRemaining,
              runningCount   |-> st.runningCount + weight,
              history        |-> Append(st.history,
                                        [card |-> card, weight |-> weight,
                                         rc |-> st.runningCount,
                                         remaining |-> newRemaining])]

\* applyCard that records the new running count in the history entry
applyCard_entryNewRC(st, rls, card) ==
    IF HasKey(st.cardsRemaining, card) /\ st.cardsRemaining[card] # NaN
       /\ st.cardsRemaining[card] <= 0
    THEN st
    ELSE LET weight == tagWeight(rls, card)
             old    == IF HasKey(st.cardsRemaining, card) THEN st.cardsRemaining[card] ELSE NaN
             newRC  == st.runningCount + weight
         IN  [cardsRemaining |-> Put(st.cardsRemaining, card,
                                     IF old = NaN THEN NaN ELSE old - 1),
              runningCount   |-> newRC,
              history        |-> Append(st.history,
                                        [card |-> card, weight |-> weight,
                                         rc |-> newRC,
                                         remaining |-> st.cardsRemaining])]

\* applyCard(card)
applyCard(st, rls, card) ==
    IF HasKey(st.cardsRemaining, card) /\ st.cardsRemaining[card] # NaN
       /\ st.cardsRemaining[card] <= 0
    THEN st
    ELSE LET weight == tagWeight(rls, card)
             old    == IF HasKey(st.cardsRemaining, card) THEN st.cardsRemaining[card] ELSE NaN
             newRemaining == Put(st.cardsRemaining, card,
                                 IF old = NaN THEN NaN ELSE old - 1)
             newRC  == st.runningCount + weight
         IN  [cardsRemaining |-> newRemaining,
              runningCount   |-> newRC,
              history        |-> Append(st.history,
                                        [card |-> card, weight |-> weight,
                                         rc |-> st.runningCount,
                                         remaining |-> st.cardsRemaining])]

\* removeCard without the at-capacity guard
removeCard_noGuard(st, rls, card) ==
    [cardsRemaining |-> [st.cardsRemaining EXCEPT ![card] = @ + 1],
     runningCount   |-> st.runningCount - tagWeight(rls, card),
     history        |-> st.history]

\* removeCard that adds the tag weight instead of subtracting it
removeCard_addsWeight(st, rls, card) ==
    IF st.cardsRemaining[card] >= maxCards(rls, card) THEN st
    ELSE [cardsRemaining |-> [st.cardsRemaining EXCEPT ![card] = @ + 1],
          runningCount   |-> st.runningCount + tagWeight(rls, card),
          history        |-> st.history]

\* removeCard(card)
removeCard(st, rls, card) ==
    IF HasKey(st.cardsRemaining, card) /\ st.cardsRemaining[card] # NaN
       /\ st.cardsRemaining[card] >= maxCards(rls, card)
    THEN st
    ELSE LET weight == tagWeight(rls, card)
             old    == IF HasKey(st.cardsRemaining, card) THEN st.cardsRemaining[card] ELSE NaN
             newRemaining == Put(st.cardsRemaining, card,
                                 IF old = NaN THEN NaN ELSE old + 1)
             newRC  == st.runningCount - weight
         IN  [cardsRemaining |-> newRemaining,
              runningCount   |-> newRC,
              history        |-> st.history]

\* first card of the list with cardsCopy[card] > 0, "null" when there is none
RECURSIVE firstAvailable(_, _)
firstAvailable(cards, list) ==
    IF list = <<>> THEN "null"
    ELSE IF HasKey(cards, Head(list)) /\ cards[Head(list)] # NaN /\ cards[Head(list)] > 0
         THEN Head(list)
         ELSE firstAvailable(cards, Tail(list))

\* cardToRemove that tries the ace before the ten
cardToRemove_aceFirst(cards, value) ==
    IF value = 1 THEN firstAvailable(cards, <<"2", "3", "4", "5", "6">>)
    ELSE IF value = 0 THEN firstAvailable(cards, <<"7", "8", "9">>)
    ELSE IF value = -1 THEN firstAvailable(cards, <<"A", "10">>)
    ELSE "null"

\* the card applyQuickCount(value) picks
cardToRemove(cards, value) ==
    IF value = 1 THEN firstAvailable(cards, <<"2", "3", "4", "5", "6">>)
    ELSE IF value = 0 THEN firstAvailable(cards, <<"7", "8", "9">>)
    ELSE IF value = -1 THEN firstAvailable(cards, <<"10", "A">>)
    ELSE "null"

\* applyQuickCount that leaves the running count alone
applyQuickCount_keepRC(st, value) ==
    IF getTotalCardsRemaining(st.cardsRemaining) # NaN
       /\ getTotalCardsRemaining(st.cardsRemaining) <= 0
    THEN st
    ELSE LET c == cardToRemove(st.cardsRemaining, value)
         IN  IF c = "null" THEN st
             ELSE [cardsRemaining |-> [st.cardsRemaining EXCEPT ![c] = @ - 1],
                   runningCount   |-> st.runningCount,
                   history        |-> Append(st.history,
                                             [quick |-> value, card |-> c,
                                              rc |-> st.runningCount,
                                              remaining |-> st.cardsRemaining])]

\* applyQuickCount that forgets cardsCopy[cardToRemove]--
applyQuickCount_noDecrement(st, value) ==
    LET c == cardToRemove(st.cardsRemaining, value)
    IN  IF getTotalCardsRemaining(st.cardsRemaining) <= 0 \/ c = "null" THEN st
        ELSE [cardsRemaining |-> st.cardsRemaining,
              runningCount   |-> st.runningCount + value,
              history        |-> Append(st.history,
                                        [quick |-> value, card |-> c,
                                         rc |-> st.runningCount,
                                         remaining |-> st.cardsRemaining])]

\* applyQuickCount(value)
applyQuickCount(st, value) ==
    IF getTotalCardsRemaining(st.cardsRemaining) # NaN
       /\ getTotalCardsRemaining(st.cardsRemaining) <= 0
    THEN st
    ELSE LET c == cardToRemove(st.cardsRemaining, value)
         IN  IF c = "null" THEN st
             ELSE [cardsRemaining |-> [st.cardsRemaining EXCEPT ![c] = @ - 1],
                   runningCount   |-> st.runningCount + value,
                   history        |-> Append(st.history,
                                             [quick |-> value, card |-> c,
                                              rc |-> st.runningCount,
                                              remaining |-> st.cardsRemaining])]

\* undo that restores the running count but leaves the shoe
undo_keepShoe(st) ==
    IF Len(st.history) = 0 THEN st
    ELSE LET lastAction == st.history[Len(st.history)]
         IN  [cardsRemaining |-> st.cardsRemaining,
              runningCount   |-> lastAction.rc,
              history        |-> SubSeq(st.history, 1, Len(st.history) - 1)]

\* undo that restores the shoe but leaves the running count
undo_keepRC(st) ==
    IF Len(st.history) = 0 THEN st
    ELSE LET lastAction == st.history[Len(st.history)]
         IN  [cardsRemaining |-> lastAction.remaining,
              runningCount   |-> st.runningCount,
              history        |-> SubSeq(st.history, 1, Len(st.history) - 1)]

\* undo that puts the dealt card back instead of restoring the snapshot
undo_recompute(st) ==
    IF Len(st.history) = 0 THEN st
    ELSE LET lastAction == st.history[Len(st.history)]
         IN  [cardsRemaining |-> [st.cardsRemaining EXCEPT ![lastAction.card] = @ + 1],
              runningCount   |-> lastAction.rc,
              history        |-> SubSeq(st.history, 1, Len(st.history) - 1)]

\* undo()
undo(st) ==
    IF Len(st.history) = 0 THEN st
    ELSE LET lastAction == st.history[Len(st.history)]
         IN  [cardsRemaining |-> lastAction.remaining,
              runningCount   |-> lastAction.rc,
              history        |-> SubSeq(st.history, 1, Len(st.history) - 1)]

(***************************************************************************)
(* Quick input: the text field is a sequence of characters.                *)
(***************************************************************************)
\* String.prototype.toUpperCase, on the characters the inputs use
toUpperCase(ch) ==
    IF ch = "a" THEN "A" ELSE IF ch = "j" THEN "J" ELSE IF ch = "q" THEN "Q"
    ELSE IF ch = "k" THEN "K" ELSE IF ch = "x" THEN "X" ELSE ch

upperAll(s) == [i \in 1..Len(s) |-> toUpperCase(s[i])]

\* String.prototype.split(','): the pieces between commas (always at least one piece)
RECURSIVE split(_, _)
split(s, cur) ==
    IF s = <<>> THEN <<cur>>
    ELSE IF Head(s) = "," THEN <<cur>> \o split(Tail(s), <<>>)
    ELSE split(Tail(s), Append(cur, Head(s)))

\* String.prototype.trim
RECURSIVE trimLeft(_)
trimLeft(s) == IF s # <<>> /\ Head(s) = " " THEN trimLeft(Tail(s)) ELSE s

RECURSIVE trimRight(_)
trimRight(s) ==
    IF s # <<>> /\ s[Len(s)] = " " THEN trimRight(SubSeq(s, 1, Len(s) - 1)) ELSE s

trim(s) == trimRight(trimLeft(s))

\* the token as a key: one character, or the two characters of '10'
tokenKey(tok) ==
    IF Len(tok) = 1 THEN tok[1]
    ELSE IF tok = <<"1", "0">> THEN "10"
    ELSE "other"

\* quickInput.toUpperCase().split(',').map(c => c.trim())
parseCards(input) ==
    LET pieces == split(upperAll(input), <<>>)
    IN  [i \in 1..Len(pieces) |-> tokenKey(trim(pieces[i]))]

\* ['J', 'Q', 'K'].includes(card) ? '10' : card
normalizedCard(card) == IF card \in {"J", "Q", "K"} THEN "10" ELSE card

\* the forEach of processQuickInput: every applyCard call of the loop runs in
\* the closure of the same render, so each call computes its setState values
\* from st and the values of the last call are the ones installed
RECURSIVE forEachCard(_, _, _, _)
forEachCard(st, rls, cards, acc) ==
    IF cards = <<>> THEN acc
    ELSE LET c    == normalizedCard(Head(cards))
             tags == getCountingSystem(rls.countingSystem).tags
         IN  IF HasKey(tags, c) /\ HasKey(st.cardsRemaining, c)
                /\ st.cardsRemaining[c] # NaN /\ st.cardsRemaining[c] > 0
             THEN forEachCard(st, rls, Tail(cards), applyCard(st, rls, c))
             ELSE forEachCard(st, rls, Tail(cards), acc)

\* processQuickInput()
processQuickInput(st, rls, input) == forEachCard(st, rls, parseCards(input), st)


(***************************************************************************)
(* Initial state: the state after the mount effect has run resetShoe().    *)
(***************************************************************************)
Op(name, arg, done) == [op |-> name, arg |-> arg, done |-> done, afterDeal |-> FALSE]

Init ==
    /\ rules = DEFAULT_COMPREHENSIVE_RULES
    /\ cardsRemaining = resetShoe(DEFAULT_COMPREHENSIVE_RULES).cardsRemaining
    /\ runningCount = 0
    /\ history = <<>>
    /\ lastOp = Op("mount", "", TRUE)
    /\ netDealt = 0
    /\ corrSince = <<0>>
    /\ revertedCorr = 0
    /\ handType = "hard"
    /\ handValue = "16"
    /\ dealerCard = "10"
    /\ recommendation = Null

(***************************************************************************)
(* Inputs.                                                                 *)
(***************************************************************************)
\* the ranks whose + and - buttons of the card overview are pressed
DealRanks == {"2", "7"}

CorrectRanks == {"2"}

Buckets == {1, 0, -1}

\* the inputs of the runs that deplete a rank
DeepRanks == {"2", "3"}

DeepBuckets == {1}

BucketName(value) == IF value = 1 THEN "+1" ELSE IF value = 0 THEN "0" ELSE "-1"

\* texts typed into the quick input field
QuickInputs ==
    { <<"2", ",", "3">>,
      <<" ", "j", ",", "x">>,
      <<>> }

InputName(input) ==
    IF input = <<"2", ",", "3">> THEN "2,3"
    ELSE IF input = <<" ", "j", ",", "x">> THEN " j,x"
    ELSE ""

\* bookkeeping of the corrections
TotalCorr == SumSeq(corrSince) + revertedCorr

Install(st) ==
    /\ cardsRemaining' = st.cardsRemaining
    /\ runningCount' = st.runningCount
    /\ history' = st.history

\* bookkeeping of a handler that may have dealt one card
CountDeal(done) ==
    /\ netDealt' = IF done THEN netDealt + 1 ELSE netDealt
    /\ corrSince' = IF done THEN Append(corrSince, 0) ELSE corrSince
    /\ UNCHANGED revertedCorr

(***************************************************************************)
(* Actions: one per handler.                                               *)
(***************************************************************************)
\* the + button of a rank: applyCard(card)
DealCard(card, bound) ==
    /\ LET st == applyCard(Shoe, rules, card)
       IN  /\ Len(st.history) <= bound
           /\ Install(st)
           /\ lastOp' = Op("applyCard", card, st # Shoe)
           /\ CountDeal(st # Shoe)
    /\ UNCHANGED <<rules, handVars, recommendation>>

\* the - button of a rank: removeCard(card)
CorrectCard(card) ==
    /\ TotalCorr < MaxCorr
    /\ LET st == removeCard(Shoe, rules, card)
       IN  /\ Install(st)
           /\ lastOp' = Op("removeCard", card, st # Shoe)
           /\ netDealt' = IF st # Shoe THEN netDealt - 1 ELSE netDealt
           /\ corrSince' = IF st # Shoe
                           THEN [corrSince EXCEPT ![Len(corrSince)] = @ + 1]
                           ELSE corrSince
    /\ UNCHANGED <<rules, revertedCorr, handVars, recommendation>>

\* the +1 / 0 / -1 buttons and the arrow keys: applyQuickCount(value)
QuickCount(value, bound) ==
    /\ LET st == applyQuickCount(Shoe, value)
       IN  /\ Len(st.history) <= bound
           /\ Install(st)
           /\ lastOp' = Op("applyQuickCount", BucketName(value), st # Shoe)
           /\ CountDeal(st # Shoe)
    /\ UNCHANGED <<rules, handVars, recommendation>>

\* the Undo button: undo()
Undo ==
    /\ LET st == undo(Shoe)
       IN  /\ Install(st)
           /\ lastOp' = [op |-> "undo", arg |-> "", done |-> st # Shoe,
                         afterDeal |-> lastOp.op = "applyCard" /\ lastOp.done]
           /\ netDealt' = IF st # Shoe THEN netDealt - 1 ELSE netDealt
           /\ revertedCorr' = IF st # Shoe
                              THEN revertedCorr + corrSince[Len(corrSince)]
                              ELSE revertedCorr
           /\ corrSince' = IF st # Shoe
                           THEN SubSeq(corrSince, 1, Len(corrSince) - 1)
                           ELSE corrSince
    /\ UNCHANGED <<rules, handVars, recommendation>>

\* the Reset button: resetShoe()
Reset ==
    /\ Install(resetShoe(rules))
    /\ lastOp' = Op("resetShoe", "", TRUE)
    /\ netDealt' = 0
    /\ corrSince' = <<0>>
    /\ revertedCorr' = 0
    /\ recommendation' = Null
    /\ UNCHANGED <<rules, handVars>>

\* the rules panel: setRules(newRules), then the effect on [rules.numDecks]
\* runs resetShoe() of the new render when the deck count has changed
SetRules(newRules) ==
    /\ newRules # rules
    /\ rules' = newRules
    /\ IF newRules.numDecks # rules.numDecks
       THEN /\ Install(resetShoe(newRules))
            /\ lastOp' = Op("setRules", "numDecks", TRUE)
            /\ netDealt' = 0
            /\ corrSince' = <<0>>
            /\ revertedCorr' = 0
            /\ recommendation' = Null
       ELSE /\ lastOp' = Op("setRules", "countingSystem", TRUE)
            /\ UNCHANGED <<cardsRemaining, runningCount, history,
                           netDealt, corrSince, revertedCorr, recommendation>>
    /\ UNCHANGED handVars

\* the Add button / Enter in the quick input field: processQuickInput()
QuickInput(input, bound) ==
    /\ LET st == processQuickInput(Shoe, rules, input)
       IN  /\ Len(st.history) <= bound
           /\ Install(st)
           /\ lastOp' = Op("processQuickInput", InputName(input), st # Shoe)
           /\ CountDeal(st # Shoe)
    /\ UNCHANGED <<rules, handVars, recommendation>>

\* the Quick Start button: quickStartStandard().  No import or declaration of
\* the file binds DEFAULT_RULES, so evaluating the argument of setRules throws
\* a ReferenceError before setRules or resetShoe is called
QuickStart ==
    /\ lastOp' = Op("quickStartStandard", "ReferenceError", FALSE)
    /\ UNCHANGED <<rules, cardsRemaining, runningCount, history,
                   netDealt, corrSince, revertedCorr, handVars, recommendation>>

\* getTotalCardsRemaining() / 52, as the pair numerator, denominator
getRemainingDecks(cards) == [num |-> getTotalCardsRemaining(cards), den |-> 52]

\* getTrueCount without the guard on the decks remaining
getTrueCount_noGuard(rc, cards) ==
    LET remaining == getRemainingDecks(cards)
    IN  [num |-> rc * remaining.den, den |-> remaining.num]

\* getTrueCount(): runningCount / remaining as the fraction num / den, 0 as 0 / 1
getTrueCount(rc, cards) ==
    LET remaining == getRemainingDecks(cards)
    IN  IF remaining.num > 0
        THEN [num |-> rc * remaining.den, den |-> remaining.num]
        ELSE [num |-> 0, den |-> 1]

\* the pairs (runningCount, total) up to eight decks whose double quotient
\* runningCount / (total / 52) lies one unit in the last place below the tie
\* k + 1/2 that the exact quotient is
DoubleBelowTie ==
    { <<-135, 120>>, <<-105, 120>>, <<-15, 120>>, <<27, 216>>, <<-30, 240>>, <<35, 280>> }

\* Math.round of the double num / den: floor(x + 1/2)
MathRound(tc, rc, total) ==
    ((2 * tc.num + tc.den) \div (2 * tc.den))
        - (IF <<rc, total>> \in DoubleBelowTie THEN 1 ELSE 0)

\* getTrueCountRounded that rounds ties away from zero
getTrueCountRounded_awayFromZero(rc, cards) ==
    LET tc == getTrueCount(rc, cards)
    IN  IF tc.num >= 0 THEN (2 * tc.num + tc.den) \div (2 * tc.den)
        ELSE 0 - ((2 * (0 - tc.num) + tc.den) \div (2 * tc.den))

\* getTrueCountRounded(): Math.round(getTrueCount())
getTrueCountRounded(rc, cards) ==
    MathRound(getTrueCount(rc, cards), rc, getTotalCardsRemaining(cards))

\* cardsRemaining[card] || 0
orZero(cards, card) ==
    IF HasKey(cards, card) THEN (IF cards[card] = NaN THEN 0 ELSE cards[card]) ELSE 0

\* the pairs (count, total) up to six decks whose double (count / total) * 100
\* lies just below the tie k + 0.05 that the exact percentage is
PercentBelowTie ==
    { <<23, 80>>, <<41, 80>>, <<51, 80>>, <<46, 160>>, <<82, 160>>, <<102, 160>>,
      <<69, 240>>, <<123, 240>>, <<153, 240>> }

\* ((count / total) * 100).toFixed(1): the decimal with one fractional digit
\* nearest to the double, the larger one on a tie, as units and tenth
toFixed(count, total) ==
    LET tenths == ((2000 * count + total) \div (2 * total))
                      - (IF <<count, total>> \in PercentBelowTie THEN 1 ELSE 0)
    IN  [units |-> tenths \div 10, tenth |-> tenths % 10]

\* the string '0.0'
ZeroPercent == [units |-> 0, tenth |-> 0]

\* getCardsRemainingByCategory that leaves the aces out of minusOne
getCardsRemainingByCategory_noAces(cards) ==
    LET plusOneCards == SumOver([r \in {"2", "3", "4", "5", "6"} |-> orZero(cards, r)],
                                {"2", "3", "4", "5", "6"})
        neutralCards == SumOver([r \in {"7", "8", "9"} |-> orZero(cards, r)], {"7", "8", "9"})
        minusOneCards == orZero(cards, "10")
        totalCards == getTotalCardsRemaining(cards)
    IN  [ plusOne |-> plusOneCards,
          plusOnePercent |-> IF totalCards > 0 THEN toFixed(plusOneCards, totalCards) ELSE ZeroPercent,
          neutral |-> neutralCards,
          neutralPercent |-> IF totalCards > 0 THEN toFixed(neutralCards, totalCards) ELSE ZeroPercent,
          minusOne |-> minusOneCards,
          minusOnePercent |-> IF totalCards > 0 THEN toFixed(minusOneCards, totalCards) ELSE ZeroPercent ]

\* getCardsRemainingByCategory()
getCardsRemainingByCategory(cards) ==
    LET plusOneCards == SumOver([r \in {"2", "3", "4", "5", "6"} |-> orZero(cards, r)],
                                {"2", "3", "4", "5", "6"})
        neutralCards == SumOver([r \in {"7", "8", "9"} |-> orZero(cards, r)], {"7", "8", "9"})
        minusOneCards == orZero(cards, "10") + orZero(cards, "A")
        totalCards == getTotalCardsRemaining(cards)
    IN  [ plusOne |-> plusOneCards,
          plusOnePercent |-> IF totalCards > 0 THEN toFixed(plusOneCards, totalCards) ELSE ZeroPercent,
          neutral |-> neutralCards,
          neutralPercent |-> IF totalCards > 0 THEN toFixed(neutralCards, totalCards) ELSE ZeroPercent,
          minusOne |-> minusOneCards,
          minusOnePercent |-> IF totalCards > 0 THEN toFixed(minusOneCards, totalCards) ELSE ZeroPercent ]

\* the decimal numerals of the hand and dealer badges
Numerals ==
    << "1", "2", "3", "4", "5", "6", "7", "8", "9", "10",
       "11", "12", "13", "14", "15", "16", "17", "18", "19", "20" >>

\* parseInt(s): the number a numeral denotes, NaN for 'A'
parseInt(s) ==
    IF \E n \in DOMAIN Numerals : Numerals[n] = s
    THEN CHOOSE n \in DOMAIN Numerals : Numerals[n] = s
    ELSE NaN

\* the rule switches the legacy decision reads, and earlySurrender, which it
\* does not read
RuleFlags ==
    [insurance : BOOLEAN, lateSurrender : BOOLEAN, earlySurrender : BOOLEAN, das : BOOLEAN]

\* the return statement of getBasicStrategyActionLegacy that a lookup ends in:
\* the action of the if statement that tests the hand value, '' when none
\* tests it and the lookup runs on to a closing return 'Hit'
basicStrategyRow(ht, hv, dealer, rls) ==
    LET v == parseInt(hv)
    IN  IF ht = "hard" THEN
            IF v # NaN /\ v >= 17 THEN "Stand"
            ELSE IF v \in 13..16 THEN (IF dealer \in 2..6 THEN "Stand" ELSE "Hit")
            ELSE IF v = 12 THEN (IF dealer \in 4..6 THEN "Stand" ELSE "Hit")
            ELSE IF v = 11 THEN "Double"
            ELSE IF v = 10 THEN (IF dealer \in 2..9 THEN "Double" ELSE "Hit")
            ELSE IF v = 9 THEN (IF dealer \in 3..6 THEN "Double" ELSE "Hit")
            ELSE ""
        ELSE IF ht = "soft" THEN
            IF v = 9 THEN "Stand"
            ELSE IF v = 8 THEN (IF dealer \in 2..6 THEN "Double" ELSE "Stand")
            ELSE IF v = 7 THEN (IF dealer \in 3..6 THEN "Double"
                                ELSE IF dealer \in {2, 7, 8} THEN "Stand" ELSE "Hit")
            ELSE IF v = 6 THEN (IF dealer \in 3..6 THEN "Double" ELSE "Hit")
            ELSE IF v \in {5, 4} THEN (IF dealer \in 4..6 THEN "Double" ELSE "Hit")
            ELSE IF v \in {3, 2} THEN (IF dealer \in 5..6 THEN "Double" ELSE "Hit")
            ELSE ""
        ELSE IF ht = "pairs" THEN
            IF hv = "A" THEN "Split"
            ELSE IF hv = "10" THEN "Stand"
            ELSE IF hv = "9" THEN (IF dealer \in {2, 3, 4, 5, 6, 8, 9} THEN "Split" ELSE "Stand")
            ELSE IF hv = "8" THEN "Split"
            ELSE IF hv = "7" THEN (IF dealer \in 2..7 THEN "Split" ELSE "Hit")
            ELSE IF hv = "6" THEN (IF dealer \in 2..6 /\ rls.das THEN "Split" ELSE "Hit")
            ELSE IF hv = "5" THEN "Double"
            ELSE IF hv = "4" THEN (IF dealer \in 5..6 /\ rls.das THEN "Split" ELSE "Hit")
            ELSE IF hv \in {"3", "2"} THEN (IF dealer \in 2..7 /\ rls.das THEN "Split" ELSE "Hit")
            ELSE ""
        ELSE ""

\* getBasicStrategyActionLegacy(handType, handValue, dealer, rules)
getBasicStrategyActionLegacy(ht, hv, dealer, rls) ==
    LET row == basicStrategyRow(ht, hv, dealer, rls)
    IN  IF row = "" THEN "Hit" ELSE row

\* actionColors[action] || 'gray'
actionColors(action) ==
    CASE action = "Stand" -> "green"
      [] action = "Hit" -> "red"
      [] action = "Double" -> "yellow"
      [] action = "Split" -> "blue"
      [] action = "Insurance" -> "purple"
      [] action = "Surrender" -> "orange"
      [] OTHER -> "gray"

\* the index deviation of getRecommendationLegacy that fires, '' when none does
indexDeviation(ht, hv, dealer, tc) ==
    IF ht = "hard" /\ hv = "16" /\ dealer = 10 /\ tc >= 0
        THEN [action |-> "Stand", note |-> "Index 0"]
    ELSE IF ht = "hard" /\ hv = "15" /\ dealer = 10 /\ tc >= 4
        THEN [action |-> "Stand", note |-> "Index +4"]
    ELSE IF ht = "hard" /\ hv = "12" /\ dealer = 3 /\ tc >= 2
        THEN [action |-> "Stand", note |-> "Index +2"]
    ELSE IF ht = "hard" /\ hv = "12" /\ dealer = 2 /\ tc >= 3
        THEN [action |-> "Stand", note |-> "Index +3"]
    ELSE IF ht = "hard" /\ hv = "10" /\ dealer \in {10, 11} /\ tc >= 4
        THEN [action |-> "Double", note |-> "Index +4"]
    ELSE IF ht = "hard" /\ hv = "11" /\ dealer = 11 /\ tc >= 1
        THEN [action |-> "Double", note |-> "Index +1"]
    ELSE IF ht = "hard" /\ hv = "9" /\ dealer = 2 /\ tc >= 1
        THEN [action |-> "Double", note |-> "Index +1"]
    ELSE IF ht = "hard" /\ hv = "9" /\ dealer = 7 /\ tc >= 3
        THEN [action |-> "Double", note |-> "Index +3"]
    ELSE IF ht = "soft" /\ hv = "8" /\ dealer = 6 /\ tc >= 3
        THEN [action |-> "Double", note |-> "Index +3"]
    ELSE IF ht = "pairs" /\ hv = "9" /\ dealer = 7 /\ tc >= 3
        THEN [action |-> "Split", note |-> "Index +3"]
    ELSE [action |-> "", note |-> "Basic Strategy"]

\* getRecommendationLegacy(): the record it builds for setRecommendation from
\* the selection, the rounded true count and the rules, without the ev field
\* (calculateEV is bound nowhere in the sources)
getRecommendationLegacy(ht, hv, dc, tc, rls) ==
    LET dealer == IF dc = "A" THEN 11 ELSE parseInt(dc)
        v == parseInt(hv)
        surrender ==
            IF /\ rls.lateSurrender
               /\ ht = "hard"
               /\ \/ v = 16 /\ dealer \in {9, 10, 11}
                  \/ v = 15 /\ dealer = 10
            THEN [action |-> "Surrender", note |-> "Late Surrender"]
            ELSE [action |-> "", note |-> "Basic Strategy"]
        deviated ==
            IF surrender.action = "" THEN indexDeviation(ht, hv, dealer, tc)
            ELSE surrender
        action ==
            IF deviated.action = "" THEN getBasicStrategyActionLegacy(ht, hv, dealer, rls)
            ELSE deviated.action
    IN  IF dealer = 11 /\ rls.insurance /\ tc >= 3
        THEN [action |-> "Insurance", note |-> "Take insurance", color |-> "purple"]
        ELSE [action |-> action, note |-> deviated.note, color |-> actionColors(action)]

\* the hand badges of the selection panel: hard 4..20, soft 2..9, pairs 2..10 and A
HandBadges ==
    { <<"hard", Numerals[n]>> : n \in 4..20 }
        \cup { <<"soft", Numerals[n]>> : n \in 2..9 }
        \cup { <<"pairs", Numerals[n]>> : n \in 2..10 } \cup { <<"pairs", "A">> }

\* the dealer upcard badges
DealerBadges == { Numerals[n] : n \in 2..10 } \cup {"A"}

\* generateStrategyResponse(handType, handValue, dealerCard, trueCount, rules)
\* with trueCount = calculateTrueCount(runningCount, decksRemaining,
\* rules.countingSystem): both are functions of the strategy and counting
\* modules; the response is identified by the arguments it is computed from
generateStrategyResponse(ht, hv, dc, rc, decks, rls) ==
    [kind |-> "response", handType |-> ht, handValue |-> hv, dealerCard |-> dc,
     runningCount |-> rc, decksRemaining |-> decks, rules |-> rls]

\* the hand badges: setHandType(type); setHandValue(value)
SelectHand(type, value) ==
    /\ <<type, value>> # <<handType, handValue>>
    /\ handType' = type
    /\ handValue' = value
    /\ lastOp' = Op("selectHand", value, TRUE)
    /\ UNCHANGED <<rules, cardsRemaining, runningCount, history,
                   netDealt, corrSince, revertedCorr, dealerCard, recommendation>>

\* the dealer upcard badges: setDealerCard(v)
SelectDealer(v) ==
    /\ v # dealerCard
    /\ dealerCard' = v
    /\ lastOp' = Op("selectDealer", v, TRUE)
    /\ UNCHANGED <<rules, cardsRemaining, runningCount, history,
                   netDealt, corrSince, revertedCorr, handType, handValue, recommendation>>

\* getRecommendation that also calls resetShoe()
GetRecommendation_resets ==
    /\ recommendation' = Null
    /\ Install(resetShoe(rules))
    /\ lastOp' = Op("getRecommendation", "", TRUE)
    /\ UNCHANGED <<rules, netDealt, corrSince, revertedCorr, handVars>>

\* the Recommend Action button: getRecommendation()
GetRecommendation ==
    /\ recommendation' = generateStrategyResponse(handType, handValue, dealerCard,
                                                  runningCount,
                                                  getRemainingDecks(cardsRemaining), rules)
    /\ lastOp' = Op("getRecommendation", "", TRUE)
    /\ UNCHANGED <<rules, cardsRemaining, runningCount, history,
                   netDealt, corrSince, revertedCorr, handVars>>

Next ==
    \/ \E card \in DealRanks : DealCard(card, MaxHist)
    \/ \E card \in CorrectRanks : CorrectCard(card)
    \/ \E value \in Buckets : QuickCount(value, MaxHist)
    \/ Undo
    \/ Reset
    \/ \E newRules \in RulesChoices : SetRules(newRules)
    \/ \E input \in QuickInputs : QuickInput(input, MaxHist)
    \/ QuickStart

Spec == Init /\ [][Next]_vars

\* the runs that deplete a rank: only the low ranks are dealt, deeper
NextDeep ==
    \/ \E card \in DeepRanks : DealCard(card, MaxDeep)
    \/ \E card \in DeepRanks : CorrectCard(card)
    \/ \E value \in DeepBuckets : QuickCount(value, MaxDeep)
    \/ Undo
    \/ Reset
    \/ \E newRules \in RulesChoices : SetRules(newRules)

SpecDeep == Init /\ [][NextDeep]_vars

\* the runs of quick counts: one quick count key is pressed until its bucket
\* is exhausted, then another one
SameRun(value) ==
    IF history = <<>> THEN TRUE
    ELSE \/ history[Len(history)].quick = value
         \/ cardToRemove(cardsRemaining, history[Len(history)].quick) = "null"

NextRun ==
    \/ \E value \in Buckets : SameRun(value) /\ QuickCount(value, MaxRun)
    \/ Undo
    \/ Reset
    \/ \E newRules \in RulesChoices : SetRules(newRules)

SpecRun == Init /\ [][NextRun]_vars

\* the handlers called as the event interface dealCard(rank) /
\* correctCard(rank), with a rank of the shoe and a string that is no rank
ApiRanks == {"5", "X"}

NextApi ==
    \/ \E card \in ApiRanks : DealCard(card, MaxHist)
    \/ \E card \in ApiRanks : CorrectCard(card)
    \/ Undo
    \/ Reset

SpecApi == Init /\ [][NextApi]_vars

\* the recommendation panel, with a few low cards dealt
HandChoices == {<<"hard", "16">>, <<"hard", "8">>, <<"soft", "8">>, <<"pairs", "9">>}

DealerChoices == {"7", "10", "A"}

NextRec ==
    \/ \E value \in DeepBuckets : QuickCount(value, MaxHist)
    \/ Undo
    \/ Reset
    \/ \E newRules \in RulesChoices : SetRules(newRules)
    \/ \E h \in HandChoices : SelectHand(h[1], h[2])
    \/ \E v \in DealerChoices : SelectDealer(v)
    \/ GetRecommendation

SpecRec == Init /\ [][NextRec]_vars

\* the bucket whose list in applyQuickCount holds the card
bucketOf(card) ==
    IF card \in {"2", "3", "4", "5", "6"} THEN 1
    ELSE IF card \in {"7", "8", "9"} THEN 0
    ELSE -1

\* the mixed runs: the cards of one bucket are dealt in the order of its list
\* until the bucket is exhausted, then those of another one
MixRun(value) ==
    IF history = <<>> THEN TRUE
    ELSE \/ bucketOf(history[Len(history)].card) = value
         \/ cardToRemove(cardsRemaining, bucketOf(history[Len(history)].card)) = "null"

\* the ranks dealt with their + button in the mixed runs; the other ranks are
\* dealt with the quick count key of their bucket
ApplyRanks == {"2", "4", "6", "8", "10"}

\* the rule sets with the level-1 system
HiLoRules == { r \in RulesChoices : r.countingSystem = "hi-lo" }

NextMix ==
    \/ \E value \in Buckets :
          /\ MixRun(value)
          /\ cardToRemove(cardsRemaining, value) \in ApplyRanks
          /\ DealCard(cardToRemove(cardsRemaining, value), MaxRun + MaxMixCorr)
    \/ \E value \in Buckets :
          /\ MixRun(value)
          /\ cardToRemove(cardsRemaining, value) \notin ApplyRanks
          /\ QuickCount(value, MaxRun + MaxMixCorr)
    \/ \E card \in CorrectRanks : TotalCorr < MaxMixCorr /\ CorrectCard(card)
    \/ Undo
    \/ Reset
    \/ \E newRules \in HiLoRules : SetRules(newRules)

SpecMix == Init /\ [][NextMix]_vars

TypeOK ==
    /\ rules \in RulesChoices
    /\ DOMAIN cardsRemaining = Ranks
    /\ runningCount \in Int
    /\ Len(corrSince) = Len(history) + 1

(***************************************************************************)
(* Vocabulary of the properties.                                           *)
(***************************************************************************)
\* capacity of a rank for the current deck count
Capacity(r) == IF r = "10" THEN rules.numDecks * 16 ELSE rules.numDecks * 4

TotalRemaining == SumOver(cardsRemaining, Ranks)

ShoeUnchanged == UNCHANGED <<cardsRemaining, runningCount, history>>

LastEntry == history[Len(history)]

\* the weight a history entry's deal added to the running count
weightApplied(e) == IF "weight" \in DOMAIN e THEN e.weight ELSE e.quick

\* the tag of a rank under the selected counting system
SelectedTag(r) == getCountingSystem(rules.countingSystem).tags[r]

\* n successive dealCard calls, each on the state the previous one left
RECURSIVE dealInOrder(_, _, _)
dealInOrder(st, rls, cards) ==
    IF cards = <<>> THEN st
    ELSE dealInOrder(applyCard(st, rls, normalizedCard(Head(cards))), rls, Tail(cards))

RECURSIVE SumWeights(_)
SumWeights(cards) ==
    IF cards = <<>> THEN 0
    ELSE SelectedTag(normalizedCard(Head(cards))) + SumWeights(Tail(cards))

\* every card of the list is a rank, no rank occurs twice, and each is available
AllValidAvailable(cards) ==
    /\ \A i \in 1..Len(cards) :
          /\ normalizedCard(cards[i]) \in Ranks
          /\ cardsRemaining[normalizedCard(cards[i])] > 0
    /\ \A i, j \in 1..Len(cards) :
          i # j => normalizedCard(cards[i]) # normalizedCard(cards[j])

(***************************************************************************)
(* Properties.                                                             *)
(***************************************************************************)

\* C1: after any sequence of deals, corrections, quick counts, undos and
\* resets, every rank r has 0 <= remaining[r] <= capacity(r), with
\* capacity('10') = numDecks*16 and capacity(other) = numDecks*4.
C1_RemainingWithinCapacity ==
    \A r \in Ranks : 0 <= cardsRemaining[r] /\ cardsRemaining[r] <= Capacity(r)

\* a rank is depleted and a correction of a rank at capacity was attempted
C1_Witness ==
    /\ cardsRemaining["2"] = 0
    /\ lastOp = Op("removeCard", "3", FALSE)
    /\ cardsRemaining["3"] = Capacity("3")

\* C2: for any rank with remaining > 0, applyCard(rank) followed by undo()
\* restores remaining counts, running count and history to their values
\* before the applyCard.
C2_ApplyUndoRoundTrip ==
    \A c \in Ranks :
        cardsRemaining[c] > 0 => undo(applyCard(Shoe, rules, c)) = Shoe

\* an undo has run directly after a successful applyCard
C2_Witness == lastOp.op = "undo" /\ lastOp.done /\ lastOp.afterDeal

\* C3 as stated: with a non-empty history, undo() raises the remaining count
\* of the last entry's rank by one, lowers the running count by the entry's
\* weight and leaves every other rank unchanged, also after corrections.
C3_UndoReversesOnlyLastDeal_Original ==
    history # <<>> =>
        LET e == LastEntry
            u == undo(Shoe)
        IN  /\ u.cardsRemaining[e.card] = cardsRemaining[e.card] + 1
            /\ u.runningCount = runningCount - weightApplied(e)
            /\ \A r \in Ranks \ {e.card} : u.cardsRemaining[r] = cardsRemaining[r]

\* C3 (amended): with a non-empty history and no successful correction since
\* the newest history entry became the newest, undo() raises the remaining
\* count of that entry's rank by one, lowers the running count by the weight
\* that deal applied and leaves every other rank unchanged.
C3_UndoReversesLastDeal ==
    (history # <<>> /\ corrSince[Len(corrSince)] = 0) =>
        LET e == LastEntry
            u == undo(Shoe)
        IN  /\ u.cardsRemaining[e.card] = cardsRemaining[e.card] + 1
            /\ u.runningCount = runningCount - weightApplied(e)
            /\ \A r \in Ranks \ {e.card} : u.cardsRemaining[r] = cardsRemaining[r]
            /\ u.history = SubSeq(history, 1, Len(history) - 1)

\* an undo has popped an entry and the entry below it has no correction on top
C3_Witness ==
    /\ lastOp.op = "undo" /\ lastOp.done
    /\ history # <<>> /\ corrSince[Len(corrSince)] = 0
    /\ runningCount # 0

\* C4 as stated: total remaining + (deals - corrections - undos) = numDecks*52.
C4_Conservation_Original == TotalRemaining + netDealt = rules.numDecks * 52

\* C4 (amended): total remaining + net cards dealt = numDecks*52, where net
\* counts +1 per successful deal, -1 per successful undo and -1 per
\* successful correction that no undo has reverted since (undo restores the
\* snapshot taken before the deal, which also takes back the corrections made
\* after it).
C4_Conservation ==
    TotalRemaining + netDealt + revertedCorr = rules.numDecks * 52

\* an undo has reverted a correction
C4_Witness == lastOp.op = "undo" /\ lastOp.done /\ revertedCorr > 0

\* C5: the running count is the sum over the ranks of
\* tag(r) * (capacity(r) - remaining[r]) under the selected counting system.
C5_RunningCountIsTagSum ==
    LET out == [r \in Ranks |-> SelectedTag(r) * (Capacity(r) - cardsRemaining[r])]
    IN  runningCount = SumOver(out, Ranks)

\* C6: a quick-input list of n cards that are each valid and available is
\* equivalent to n successive dealCard calls in list order: the total drops by
\* n, the running count changes by the sum of the n tags, n entries are
\* appended.
C6_QuickInputIsSequentialDeals ==
    \A input \in QuickInputs :
        LET cards == parseCards(input)
            st    == processQuickInput(Shoe, rules, input)
        IN  AllValidAvailable(cards) =>
              /\ st = dealInOrder(Shoe, rules, cards)
              /\ SumOver(st.cardsRemaining, Ranks) = TotalRemaining - Len(cards)
              /\ st.runningCount = runningCount + SumWeights(cards)
              /\ Len(st.history) = Len(history) + Len(cards)

\* C7: applyCard on a depleted rank changes neither the remaining counts nor
\* the running count nor the history.
C7_ApplyDepletedIsNoOp ==
    [][\A c \in Ranks :
          (lastOp'.op = "applyCard" /\ lastOp'.arg = c /\ cardsRemaining[c] = 0)
              => ShoeUnchanged]_vars

\* applyCard has run on a depleted rank
C7_Witness ==
    /\ lastOp.op = "applyCard" /\ ~lastOp.done
    /\ cardsRemaining[lastOp.arg] = 0
    /\ history # <<>>

\* C8: removeCard(rank) is a no-op when remaining[rank] is at capacity;
\* otherwise it raises remaining[rank] by one, subtracts the rank's tag from
\* the running count, and leaves every other rank and the history unchanged.
C8_RemoveCardEffect ==
    [][\A c \in Ranks :
          (lastOp'.op = "removeCard" /\ lastOp'.arg = c) =>
              IF cardsRemaining[c] >= Capacity(c)
              THEN ShoeUnchanged
              ELSE /\ cardsRemaining' = [cardsRemaining EXCEPT ![c] = @ + 1]
                   /\ runningCount' = runningCount - SelectedTag(c)
                   /\ history' = history]_vars

\* removeCard has put a card back while the history is not empty
C8_Witness ==
    /\ lastOp.op = "removeCard" /\ lastOp.done
    /\ history # <<>>
    /\ cardsRemaining[lastOp.arg] <= Capacity(lastOp.arg)

\* C9: undo() with an empty history changes nothing; with a non-empty history
\* it pops exactly the last entry and sets running count and remaining counts
\* to the values stored in that entry.
C9_UndoEffect ==
    [][lastOp'.op = "undo" =>
          IF history = <<>>
          THEN ShoeUnchanged
          ELSE /\ history' = SubSeq(history, 1, Len(history) - 1)
               /\ runningCount' = LastEntry.rc
               /\ cardsRemaining' = LastEntry.remaining]_vars

\* undo has run on an empty history
C9_Witness == lastOp.op = "undo" /\ ~lastOp.done /\ history = <<>>

\* C10: after reset, and after any change of the deck count, every rank is
\* at capacity for the current deck count, the running count is 0 and the
\* history is empty, so that undo restores nothing.
C10_ResetIsFresh ==
    (lastOp.op = "resetShoe" \/ (lastOp.op = "setRules" /\ lastOp.arg = "numDecks")) =>
        /\ \A r \in Ranks : cardsRemaining[r] = Capacity(r)
        /\ runningCount = 0
        /\ history = <<>>
        /\ undo(Shoe) = Shoe

\* the deck count has been changed to a single deck
C10_Witness ==
    /\ lastOp.op = "setRules" /\ lastOp.arg = "numDecks"
    /\ rules.numDecks = 1
    /\ cardsRemaining["10"] = 16

\* the fixed priority order of a bucket
PriorityOrder(value) ==
    IF value = 1 THEN <<"2", "3", "4", "5", "6">>
    ELSE IF value = 0 THEN <<"7", "8", "9">>
    ELSE <<"10", "A">>

\* rank number i of the order is available and every rank before it is exhausted
IsFirstAvailable(order, i) ==
    /\ cardsRemaining[order[i]] > 0
    /\ \A j \in 1..(i - 1) : cardsRemaining[order[j]] = 0

\* C11: applyQuickCount(bucket) deals exactly one card of the first rank with
\* remaining > 0 in the bucket's priority order (+1: 2,3,4,5,6; 0: 7,8,9;
\* -1: 10 then A); when every rank of the bucket is exhausted it changes
\* nothing, also when other buckets still hold cards.
C11_QuickCountPicksFirstAvailable ==
    [][\A value \in Buckets :
          (lastOp'.op = "applyQuickCount" /\ lastOp'.arg = BucketName(value)) =>
              LET order == PriorityOrder(value)
              IN  /\ \A i \in 1..Len(order) :
                        IsFirstAvailable(order, i) =>
                            /\ cardsRemaining' = [cardsRemaining EXCEPT ![order[i]] = @ - 1]
                            /\ Len(history') = Len(history) + 1
                            /\ history'[Len(history')].card = order[i]
                  /\ (\A i \in 1..Len(order) : cardsRemaining[order[i]] = 0)
                        => ShoeUnchanged]_vars

\* the high bucket was pressed once more after the tens and then the aces ran
\* out, while the low ranks are still in the shoe
C11_Witness ==
    /\ lastOp = Op("applyQuickCount", "-1", FALSE)
    /\ cardsRemaining["10"] = 0 /\ cardsRemaining["A"] = 0
    /\ cardsRemaining["2"] > 0
    /\ Len(history) >= 20
    /\ history[16].card = "10" /\ history[17].card = "A"

\* C12: for every bucket and every selectable counting system,
\* applyQuickCount(bucket) leaves the remaining counts and the running count
\* that applyCard(r) would leave for the rank r it selects, and pushes an
\* entry recording the rank, the weight applied, the prior running count and
\* the prior shoe.
C12_QuickCountIsApplyCard ==
    \A value \in Buckets :
        LET r == cardToRemove(cardsRemaining, value)
            q == applyQuickCount(Shoe, value)
            a == applyCard(Shoe, rules, r)
        IN  r # "null" =>
              /\ q.cardsRemaining = a.cardsRemaining
              /\ q.runningCount = a.runningCount
              /\ Len(q.history) = Len(history) + 1
              /\ LET e == q.history[Len(q.history)]
                 IN  /\ e.card = r
                     /\ weightApplied(e) = SelectedTag(r)
                     /\ e.rc = runningCount
                     /\ e.remaining = cardsRemaining

\* C13: a deal or correction with a rank outside {2..9,10,A} leaves shoe,
\* running count and history unchanged: no key is added to the shoe mapping,
\* no non-integer count is stored, no history entry is pushed.
C13_InvalidRankChangesNothing ==
    [][((lastOp'.op = "applyCard" \/ lastOp'.op = "removeCard") /\ lastOp'.arg \notin Ranks)
          => /\ ShoeUnchanged
             /\ DOMAIN cardsRemaining' = Ranks
             /\ \A k \in DOMAIN cardsRemaining' : cardsRemaining'[k] # NaN]_vars

\* the shoe a reset leaves for six decks
FreshSixDecks == [r \in Ranks |-> IF r = "10" THEN 96 ELSE 24]

\* C17 (scenario A): from a fresh 6-deck shoe under Hi-Lo, dealing one '5'
\* yields running count 1, remaining['5'] = 23, 311 cards remaining, every
\* other rank at capacity and a history of exactly one entry holding the
\* fresh shoe and the prior running count 0.
C17_ScenarioA ==
    [][(/\ rules = [numDecks |-> 6, countingSystem |-> "hi-lo"]
        /\ cardsRemaining = FreshSixDecks /\ runningCount = 0 /\ history = <<>>
        /\ lastOp'.op = "applyCard" /\ lastOp'.arg = "5")
          => /\ runningCount' = 1
             /\ cardsRemaining'["5"] = 23
             /\ getTotalCardsRemaining(cardsRemaining') = 311
             /\ \A r \in Ranks \ {"5"} : cardsRemaining'[r] = FreshSixDecks[r]
             /\ DOMAIN cardsRemaining' = Ranks
             /\ Len(history') = 1
             /\ history'[1].card = "5" /\ history'[1].weight = 1
             /\ history'[1].rc = 0
             /\ history'[1].remaining = FreshSixDecks]_vars

\* one '5' has been dealt from the fresh six-deck shoe
C17_Witness ==
    /\ lastOp = Op("applyCard", "5", TRUE)
    /\ rules.numDecks = 6 /\ rules.countingSystem = "hi-lo"
    /\ Len(history) = 1 /\ history[1].remaining = FreshSixDecks
    /\ cardsRemaining = [FreshSixDecks EXCEPT !["5"] = 23]

\* C14: getRecommendation leaves the remaining counts, the running count and
\* the history unchanged; it only replaces the recommendation.
C14_RecommendationReadOnly ==
    [][lastOp'.op = "getRecommendation"
          => /\ ShoeUnchanged
             /\ UNCHANGED <<rules, netDealt, handVars>>
             /\ recommendation' # Null]_vars

\* a recommendation was requested with cards out of the shoe
C14_Witness ==
    /\ lastOp.op = "getRecommendation"
    /\ history # <<>> /\ runningCount # 0
    /\ recommendation # Null
    /\ recommendation.runningCount = runningCount

\* C15: the true count is runningCount / (total remaining / 52) when cards
\* remain and 0 otherwise: it is 0 when the running count is 0 with cards
\* remaining, and 0, without a division by zero, when no cards remain.
C15_TrueCount ==
    LET tc == getTrueCount(runningCount, cardsRemaining)
    IN  /\ tc.den > 0
        /\ TotalRemaining > 0 => tc.num * TotalRemaining = runningCount * 52 * tc.den
        /\ TotalRemaining = 0 => tc.num = 0
        /\ runningCount = 0 => tc.num = 0

\* a quick count key was pressed with the shoe dealt out
C15_Witness ==
    /\ TotalRemaining = 0
    /\ lastOp.op = "applyQuickCount" /\ ~lastOp.done
    /\ Len(history) = 52

\* the nearest integer of num / den with ties away from zero
RoundHalfAway(tc) ==
    IF tc.num >= 0 THEN (2 * tc.num + tc.den) \div (2 * tc.den)
    ELSE 0 - ((2 * (0 - tc.num) + tc.den) \div (2 * tc.den))

\* C16 as stated: the rounded true count is the true count rounded to the
\* nearest integer with ties away from zero.
C16_RoundsTiesAwayFromZero_Original ==
    getTrueCountRounded(runningCount, cardsRemaining)
        = RoundHalfAway(getTrueCount(runningCount, cardsRemaining))

\* C16 (amended): the rounded true count r is the nearest integer with ties
\* towards plus infinity, r - 1/2 <= trueCount < r + 1/2 (so -0.5 gives 0 and
\* -1.5 gives -1); for the pairs whose double quotient falls just below an
\* exact tie r + 1/2, it is the integer r below the tie.
C16_RoundsTiesUp ==
    LET tc == getTrueCount(runningCount, cardsRemaining)
        r  == getTrueCountRounded(runningCount, cardsRemaining)
    IN  IF <<runningCount, TotalRemaining>> \in DoubleBelowTie
        THEN 2 * tc.num = (2 * r + 1) * tc.den
        ELSE /\ (2 * r - 1) * tc.den <= 2 * tc.num
             /\ 2 * tc.num < (2 * r + 1) * tc.den

\* the true count is a negative tie: exactly k + 1/2 below zero
C16_Witness ==
    /\ runningCount < 0 /\ TotalRemaining > 0
    /\ (104 * runningCount) % (2 * TotalRemaining) = TotalRemaining
    /\ lastOp.op = "applyQuickCount" /\ lastOp.done

\* the primary hand actions
PrimaryActions == {"Stand", "Hit", "Double", "Split", "Surrender"}

\* the takeInsurance a recommendation reports: false when it has none
takeInsurance(rec) == IF HasKey(rec, "takeInsurance") THEN rec.takeInsurance ELSE FALSE

\* the legacy recommendation for a selection at the rounded true count of the shoe
LegacyRecommendation(ht, hv, dc, f) ==
    getRecommendationLegacy(ht, hv, dc,
        getTrueCountRounded(runningCount, cardsRemaining), f)

SurrenderSet ==
    { <<"hard", "16", "9">>, <<"hard", "16", "10">>, <<"hard", "16", "A">>,
      <<"hard", "15", "10">> }

Deviations ==
    { <<"hard", "16", "10", 0, "Stand">>,
      <<"hard", "15", "10", 4, "Stand">>,
      <<"hard", "10", "10", 4, "Double">>,
      <<"hard", "10", "A", 4, "Double">>,
      <<"hard", "12", "3", 2, "Stand">>,
      <<"hard", "12", "2", 3, "Stand">>,
      <<"hard", "9", "2", 1, "Double">>,
      <<"hard", "9", "7", 3, "Double">>,
      <<"soft", "8", "6", 3, "Double">>,
      <<"pairs", "9", "7", 3, "Split">> }

C21_BasicStrategyIsTabulated ==
    \A f \in RuleFlags :
        LET dealer == IF dealerCard = "A" THEN 11 ELSE parseInt(dealerCard)
        IN  basicStrategyRow(handType, handValue, dealer, f) # ""

\* C22: quick start puts the session into the standard configuration with a
\* fresh shoe: after quickStartStandard the rules are the standard rule set,
\* every rank is at capacity for its deck count, the running count is 0 and
\* the history is empty, from any prior state.
C22_QuickStartIsStandardFresh ==
    [][lastOp'.op = "quickStartStandard" =>
          /\ rules'.numDecks = StandardDecks
          /\ \A r \in Ranks : cardsRemaining'[r] = maxCards(rules', r)
          /\ runningCount' = 0
          /\ history' = <<>>]_vars

\* C23: the three category counts partition the shoe: plusOne (ranks 2-6),
\* neutral (ranks 7-9) and minusOne (ranks 10, A) add up to the total
\* remaining cards, and when the total is 0 all three percentages are '0.0'.
C23_CategoriesPartitionShoe ==
    LET c == getCardsRemainingByCategory(cardsRemaining)
    IN  /\ c.plusOne = SumOver(cardsRemaining, {"2", "3", "4", "5", "6"})
        /\ c.neutral = SumOver(cardsRemaining, {"7", "8", "9"})
        /\ c.minusOne = SumOver(cardsRemaining, {"10", "A"})
        /\ c.plusOne + c.neutral + c.minusOne = getTotalCardsRemaining(cardsRemaining)
        /\ getTotalCardsRemaining(cardsRemaining) = TotalRemaining
        /\ TotalRemaining = 0 =>
               /\ c.plusOnePercent = ZeroPercent
               /\ c.neutralPercent = ZeroPercent
               /\ c.minusOnePercent = ZeroPercent

\* the last card of the shoe has just been dealt
C23_Witness ==
    /\ \A r \in Ranks : cardsRemaining[r] = 0
    /\ lastOp.op = "applyQuickCount" /\ lastOp.done

\* C24: whenever the history is empty the shoe is fresh, every rank at
\* capacity and the running count 0; equivalently the oldest history entry
\* holds the fresh-shoe snapshot with prior running count 0, so undoing until
\* the history is empty returns to the fresh shoe, whatever deals and
\* corrections were interleaved.
C24_EmptyHistoryIsFresh ==
    IF history = <<>>
    THEN /\ \A r \in Ranks : cardsRemaining[r] = Capacity(r)
         /\ DOMAIN cardsRemaining = Ranks
         /\ runningCount = 0
    ELSE /\ \A r \in Ranks : history[1].remaining[r] = Capacity(r)
         /\ DOMAIN history[1].remaining = Ranks
         /\ history[1].rc = 0

\* an undo has emptied the history and taken a correction back with it
C24_Witness ==
    /\ lastOp.op = "undo" /\ lastOp.done
    /\ history = <<>>
    /\ revertedCorr > 0

\* C25: under the balanced level-1 system the running count stays within
\* -20 * numDecks .. +20 * numDecks, and it is exactly 0 whenever the shoe is
\* completely dealt out, by whatever mix of applyCard, applyQuickCount,
\* removeCard and undo the state was reached.
C25_RunningCountBounded ==
    rules.countingSystem = "hi-lo" =>
        /\ runningCount >= 0 - 20 * rules.numDecks
        /\ runningCount <= 20 * rules.numDecks
        /\ (\A r \in Ranks : cardsRemaining[r] = 0) => runningCount = 0

\* the shoe is dealt out by + buttons and quick count keys after a correction
\* and the undo that took it back
C25_Witness ==
    /\ \A r \in Ranks : cardsRemaining[r] = 0
    /\ \E i \in DOMAIN history : HasKey(history[i], "weight")
    /\ \E i \in DOMAIN history : HasKey(history[i], "quick")
    /\ revertedCorr > 0

\* the running count has reached 20 * numDecks
C25_UpperReached == runningCount = 20 * rules.numDecks

\* the running count has reached -20 * numDecks
C25_LowerReached == runningCount = 0 - 20 * rules.numDecks

====
